---- MODULE Spec2Model ----
(***************************************************************************)
(* The configuration parser of slant (slant-config.c): config_parse, its   *)
(* recursive-descent statement parsers, config_cmdline and config_free.    *)
(*                                                                         *)
(* One action per straight-line step of the C code; `pc' names the line    *)
(* the program is about to execute.  The token array is materialised on    *)
(* demand: the parser only ever reads toks[pos] for a cursor that moves    *)
(* forward, so a token (or the end of the file) is drawn when the cursor   *)
(* first reaches it.  Every file of at most MaxToks tokens over Alphabet   *)
(* is covered up to the point where the code stops reading it.             *)
(***************************************************************************)
EXTENDS Integers, Sequences, FiniteSets, TLC

VARIABLES
    pc,      \* position in the code
    toks,    \* p.toks: the tokens drawn so far
    eof,     \* TRUE once the file is known to end after toks (p.toksz = Len(toks))
    pos,     \* p.pos, 0-based as in the C code
    cfg,     \* struct config, with the struct draw it points to
    count,   \* parse_servers: hosts appended by the current statement
    wt,      \* parse_server_args: the local `waittime'
    rc,      \* result of the last statement parser (0 = it reported an error)
    argv,    \* argv[0..argc-1], drawn where the code first reads argc
    ret,     \* return value of config_parse (-1 while it is running)
    heap,    \* allocated and not yet freed blocks
    nalloc,  \* number of blocks allocated so far (block ids are 1..nalloc)
    badfree, \* TRUE once free() was given a block that was not allocated
    errno    \* the error of the last failed library call, "" for none

vars == <<pc, toks, eof, pos, cfg, count, wt, rc, argv, ret, heap, nalloc, badfree,
         errno>>

-----------------------------------------------------------------------------
(* Bounds of the model. *)

MaxToks == 12
MaxSrvToks == 13
MaxUrls == 2
MaxBoxes == 2
MaxArgs == 2

(* Program constants. *)

INT_MAX == 2147483647
WAITTIME_MIN == 15
WAITTIME_DEFAULT == 60
NULL == 0

-----------------------------------------------------------------------------
(* The words a file is made of. *)

Keywords == {"servers", "layout", "waittime", ";", "{", "}", "header", "errlog", "host"}
CatWords == {"cpu", "mem", "net", "disc", "link", "nprocs", "rprocs", "nfiles"}
OptWords == {"qmin_bars", "hour", "ip"}
NumWords == {"30", "20", "14", "2147483648"}
HostWords == {"h1", "h2"}

Alphabet == Keywords \cup CatWords \cup OptWords \cup NumWords \cup HostWords

ArgWords == <<"z", "y", "x">>

(* The decimal numerals among the words, with their values; every other   *)
(* word is not a number.                                                  *)
Numeral ==
    [w \in {"0", "14", "15", "20", "30", "2147483647"} |->
        CASE w = "0" -> 0
          [] w = "14" -> 14
          [] w = "15" -> 15
          [] w = "20" -> 20
          [] w = "30" -> 30
          [] w = "2147483647" -> 2147483647]

(* The decimal numerals whose value is above INT_MAX (the model's         *)
(* integers end there).                                                   *)
Huge == {"2147483648"}

(* strtonum(3): the value and whether an error was reported; the value is *)
(* 0 whenever an error is reported.  maxval is INT_MAX at every call.     *)
strtonum(w, minval, maxval) ==
    IF w \in Huge THEN [val |-> 0, er |-> TRUE]
    ELSE IF w \notin DOMAIN Numeral THEN [val |-> 0, er |-> TRUE]
    ELSE IF Numeral[w] < minval \/ Numeral[w] > maxval THEN [val |-> 0, er |-> TRUE]
    ELSE [val |-> Numeral[w], er |-> FALSE]

-----------------------------------------------------------------------------
(* Token cursor. *)

toksz == Len(toks)

(* The comparison of pos with toksz is decided: the token at pos has been *)
(* drawn or the file is known to end before it.                           *)
Known == pos < Len(toks) \/ eof

InBounds == pos < Len(toks)

Cur == toks[pos + 1]

tok_nadv == InBounds

tok_eq(v) == Cur = v

tok_expect(v) == tok_nadv /\ Cur = v

-----------------------------------------------------------------------------
(* struct config after memset(cfg, 0, ...): no servers, no layout.  The   *)
(* fields header, errlog, box, boxp and boxsz are those of the struct     *)
(* draw that cfg.draw points to; they are meaningful while draw # NULL.   *)
ZeroCfg ==
    [waittime |-> 0, urls |-> <<>>, urlsp |-> NULL, urlsz |-> 0,
     draw |-> NULL, header |-> 0, errlog |-> 0,
     box |-> <<>>, boxp |-> NULL, boxsz |-> 0]

(* struct nconfig after memset / calloc. *)
ZeroUrl == [url |-> NULL, str |-> "", waittime |-> 0]

(* The enum value a zeroed struct drawbox carries in `cat'. *)
ZeroCat == "DRAWCAT_0"

ZeroBox == [cat |-> ZeroCat, args |-> {}]

(* free(3) applied to each pointer of ptrs in turn: free(NULL) does       *)
(* nothing, a block that is not allocated is a bad free.                  *)
RECURSIVE DoFree(_, _, _)
DoFree(ptrs, h, bad) ==
    IF ptrs = <<>> THEN [heap |-> h, bad |-> bad]
    ELSE LET q == Head(ptrs) IN
         IF q = NULL THEN DoFree(Tail(ptrs), h, bad)
         ELSE DoFree(Tail(ptrs), h \ {q}, bad \/ q \notin h)

UrlPtrs(c) == [i \in 1..Len(c.urls) |-> c.urls[i].url]

-----------------------------------------------------------------------------
Args == {SubSeq(ArgWords, 1, n) : n \in 0..MaxArgs}

Init ==
    /\ pc = "start"
    /\ toks = <<>>
    /\ eof = FALSE
    /\ pos = 0
    /\ cfg = ZeroCfg
    /\ count = 0
    /\ wt = 0
    /\ rc = 1
    /\ argv = <<>>
    /\ ret = -1
    /\ heap = {}
    /\ nalloc = 0
    /\ badfree = FALSE
    /\ errno = ""

(* A statement parser, or the dispatcher, reports an error: the loop of   *)
(* config_parse is left by `break'.                                       *)
Fail == rc' = 0 /\ pc' = "parse_end"

(* An assertion fails: the process is aborted. *)
Abort == pc' = "abort"

(* config_parse up to the tokenizer: defaults, then the file is opened    *)
(* and read.                                                              *)
config_parse ==
    /\ pc = "start"
    /\ \E st \in {"ok", "enoent", "eio", "enomem"} :
        /\ cfg' = [ZeroCfg EXCEPT !.waittime = WAITTIME_DEFAULT]
        /\ pos' = 0
        /\ errno' = CASE st = "ok" -> ""
                      [] st = "enoent" -> "ENOENT"
                      [] st = "eio" -> "EIO"
                      [] st = "enomem" -> "ENOMEM"
        /\ CASE st = "ok" -> pc' = "top" /\ ret' = ret /\ argv' = argv
             [] st = "enoent" ->
                    pc' = "cmdline" /\ ret' = ret /\ \E a \in Args : argv' = a
             [] OTHER -> pc' = "done" /\ ret' = 0 /\ argv' = argv
    /\ UNCHANGED <<toks, eof, count, wt, rc, heap, nalloc, badfree>>

ParsePcs ==
    {"top", "waittime", "waittime_semi", "servers", "args", "args_num",
     "args_semi", "servers_semi", "layout", "layout_open", "layout_loop",
     "layout_errlog", "layout_sep", "layout_sep2", "layout_close",
     "layout_semi", "lhost", "lhost_open", "lhost_loop", "lhost_opts",
     "lhost_sep", "lhost_sep2", "lhost_close", "parse_end"}

(* The words the next token is drawn from, by the place where the code    *)
(* first reads it: every word the code compares the token with from that  *)
(* place until it advances or fails, and some of the words that are none  *)
(* of these (to the code they are all alike).  The bounds on the number   *)
(* of servers and boxes limit the files considered.                       *)
Draw ==
    CASE pc = "top" -> {"servers", "layout", "waittime", ";"}
      [] pc \in {"waittime", "args_num"} -> NumWords \cup {"h1"}
      [] pc = "layout_errlog" -> {"14", "2147483648", "h1"}
      [] pc \in {"waittime_semi", "servers_semi", "layout_semi"} -> {";", "}"}
      [] pc = "servers" ->
            IF cfg.urlsz >= MaxUrls THEN {";", "{"}
            ELSE {";", "{"} \cup HostWords \cup {"waittime"}
      [] pc \in {"args", "args_semi"} -> {"}", "waittime", ";", "h1"}
      [] pc \in {"layout", "lhost"} -> {"{", "}"}
      [] pc \in {"layout_open", "layout_sep2"} ->
            {"}", "header", "errlog", "host", ";"}
      [] pc = "layout_sep" -> {"}", ";", "header"}
      [] pc \in {"lhost_open", "lhost_sep2"} ->
            IF cfg.boxsz >= MaxBoxes THEN {"}"}
            ELSE {"}"} \cup CatWords \cup {"host", "hour"}
      [] pc = "lhost_opts" -> OptWords \cup {";", "}"}
      [] OTHER -> Alphabet

(* One turn of the strsep loop: the next token, out of words, or the end  *)
(* of the buffer; files have at most limit tokens.                        *)
TokenizeFrom(words, limit) ==
    /\ pc \in ParsePcs
    /\ ~Known
    /\ \/ eof' = TRUE /\ toks' = toks
       \/ /\ Len(toks) < limit
          /\ \E t \in words : toks' = Append(toks, t)
          /\ eof' = eof
    /\ UNCHANGED <<pc, pos, cfg, count, wt, rc, argv, ret, heap, nalloc,
                 badfree, errno>>

Tokenize == TokenizeFrom(Draw, MaxToks)

(* The same for files without a layout statement, which may be longer.    *)
TokenizeServers == TokenizeFrom(Draw \ {"layout"}, MaxSrvToks)

(* The top-level loop of config_parse. *)
config_parse_loop ==
    /\ pc = "top"
    /\ Known
    /\ IF ~InBounds THEN pc' = "parse_end" /\ UNCHANGED <<pos, rc, count>>
       ELSE IF tok_eq("servers") THEN
            pos' = pos + 1 /\ pc' = "servers" /\ count' = 0 /\ rc' = rc
       ELSE IF tok_eq("layout") THEN
            pos' = pos + 1 /\ pc' = "layout" /\ UNCHANGED <<rc, count>>
       ELSE IF tok_eq("waittime") THEN
            pos' = pos + 1 /\ pc' = "waittime" /\ UNCHANGED <<rc, count>>
       ELSE Fail /\ UNCHANGED <<pos, count>>
    /\ UNCHANGED <<toks, eof, cfg, wt, argv, ret, heap, nalloc, badfree, errno>>

(* parse_waittime: the number, then the advance of tok_adv. *)
parse_waittime ==
    /\ pc = "waittime"
    /\ Known
    /\ IF ~InBounds THEN Abort /\ UNCHANGED <<pos, cfg, rc>>
       ELSE LET n == strtonum(Cur, WAITTIME_MIN, INT_MAX) IN
            /\ cfg' = [cfg EXCEPT !.waittime = n.val]
            /\ IF n.er THEN Fail /\ pos' = pos
               ELSE pos' = pos + 1 /\ pc' = "waittime_semi" /\ rc' = rc
    /\ UNCHANGED <<toks, eof, count, wt, argv, ret, heap, nalloc, badfree, errno>>

(* parse_waittime: the end-of-file check of tok_adv, then the ";". *)
parse_waittime_semi ==
    /\ pc = "waittime_semi"
    /\ Known
    /\ IF tok_expect(";") THEN pos' = pos + 1 /\ pc' = "top" /\ rc' = 1
       ELSE Fail /\ pos' = pos
    /\ UNCHANGED <<toks, eof, cfg, count, wt, argv, ret, heap, nalloc, badfree,
                 errno>>

-----------------------------------------------------------------------------
(* parse_servers and parse_server_args *)

(* reallocarray(cfg->urls, urlsz + 1) followed by memset, urlsz++ and the *)
(* strdup of the token; p is the block strdup returned (NULL on failure). *)
(* The array keeps its block; a first allocation takes block a.           *)
AppendUrl(c, a, p, w) ==
    [c EXCEPT !.urlsp = IF c.urlsp = NULL THEN a ELSE c.urlsp,
              !.urls = Append(c.urls, [ZeroUrl EXCEPT !.url = p, !.str = w]),
              !.urlsz = c.urlsz + 1]

(* ApplyWaittime with the loop running over the whole array instead of    *)
(* the last n entries.                                                    *)
ApplyWaittimeAll(c, n, w) ==
    [c EXCEPT !.urls = [i \in 1..Len(c.urls) |-> [c.urls[i] EXCEPT !.waittime = w]]]

(* The loop of parse_server_args that writes the waittime w to the last n *)
(* entries: urls[urlsz - 1 - i] for i < n.                                *)
ApplyWaittime(c, n, w) ==
    [c EXCEPT !.urls = [i \in 1..Len(c.urls) |->
        IF i > c.urlsz - n /\ i <= c.urlsz
        THEN [c.urls[i] EXCEPT !.waittime = w]
        ELSE c.urls[i]]]

(* One turn of the host loop of parse_servers, or what follows the loop   *)
(* up to the test for "{".                                                *)
parse_servers ==
    /\ pc = "servers"
    /\ Known
    /\ IF InBounds /\ ~(tok_eq(";") \/ tok_eq("{")) THEN
            \E okarr \in BOOLEAN, okstr \in BOOLEAN :
               IF ~okarr THEN
                    /\ Fail
                    /\ errno' = "ENOMEM"
                    /\ UNCHANGED <<pos, cfg, count, wt, heap, nalloc>>
               ELSE LET a == nalloc + 1
                        na == IF cfg.urlsp = NULL THEN nalloc + 1 ELSE nalloc
                        p == IF okstr THEN na + 1 ELSE NULL
                    IN  /\ cfg' = AppendUrl(cfg, a, p, Cur)
                        /\ nalloc' = IF okstr THEN na + 1 ELSE na
                        /\ heap' = heap \cup ((IF cfg.urlsp = NULL THEN {a} ELSE {})
                                              \cup (IF okstr THEN {p} ELSE {}))
                        /\ wt' = wt
                        /\ IF okstr
                           THEN pos' = pos + 1 /\ count' = count + 1
                                /\ pc' = pc /\ rc' = rc /\ errno' = errno
                           ELSE Fail /\ errno' = "ENOMEM" /\ UNCHANGED <<pos, count>>
       ELSE /\ UNCHANGED <<cfg, count, heap, nalloc, errno>>
            /\ IF count = 0 \/ ~tok_nadv THEN Fail /\ UNCHANGED <<pos, wt>>
               ELSE IF tok_eq("{") THEN
                    pos' = pos + 1 /\ pc' = "args" /\ wt' = 0 /\ rc' = rc
               ELSE pos' = pos + 1 /\ pc' = "top" /\ rc' = 1 /\ wt' = wt
    /\ UNCHANGED <<toks, eof, argv, ret, badfree>>

(* One turn of the loop of parse_server_args up to the read of the        *)
(* number, or what follows the loop: the "}" and the write of the         *)
(* waittime.                                                              *)
parse_server_args ==
    /\ pc = "args"
    /\ Known
    /\ IF InBounds /\ ~tok_eq("}") THEN
            /\ IF tok_eq("waittime") THEN pos' = pos + 1 /\ pc' = "args_num" /\ rc' = rc
               ELSE Fail /\ pos' = pos
            /\ cfg' = cfg
       ELSE IF ~tok_expect("}") THEN Fail /\ UNCHANGED <<pos, cfg>>
       ELSE IF cfg.urlsz < count THEN Abort /\ UNCHANGED <<pos, cfg, rc>>
       ELSE /\ pos' = pos + 1
            /\ pc' = "servers_semi"
            /\ rc' = rc
            /\ cfg' = IF wt = 0 THEN cfg ELSE ApplyWaittime(cfg, count, wt)
    /\ UNCHANGED <<toks, eof, count, wt, argv, ret, heap, nalloc, badfree, errno>>

(* The values strtonum can return for a read of toks[toksz], one past the *)
(* end of the array: the memory there is not the parser's.                *)
StrayNum(minval) == {[val |-> 0, er |-> TRUE], [val |-> minval, er |-> FALSE]}

(* parse_server_args: the number after "waittime", then ++pos of tok_adv. *)
parse_server_args_num ==
    /\ pc = "args_num"
    /\ Known
    /\ \E n \in (IF InBounds THEN {strtonum(Cur, WAITTIME_MIN, INT_MAX)}
                 ELSE StrayNum(WAITTIME_MIN)) :
        \/ /\ wt' = n.val
           /\ IF n.er THEN Fail /\ pos' = pos
              ELSE pos' = pos + 1 /\ pc' = "args_semi" /\ rc' = rc
        \/ /\ ~InBounds
           /\ pc' = "segv"
           /\ UNCHANGED <<wt, pos, rc>>
    /\ UNCHANGED <<toks, eof, cfg, count, argv, ret, heap, nalloc, badfree, errno>>

(* parse_server_args_semi with the ";" after the number left in place.    *)
parse_server_args_semi_kept ==
    /\ pc = "args_semi"
    /\ Known
    /\ IF ~tok_nadv THEN Fail /\ pos' = pos
       ELSE pos' = pos /\ pc' = "args" /\ rc' = rc
    /\ UNCHANGED <<toks, eof, cfg, count, wt, argv, ret, heap, nalloc, badfree,
                 errno>>

(* parse_server_args: the end-of-file check of tok_adv, then the optional *)
(* ";".                                                                   *)
parse_server_args_semi ==
    /\ pc = "args_semi"
    /\ Known
    /\ IF ~tok_nadv THEN Fail /\ pos' = pos
       ELSE /\ pos' = IF tok_eq(";") THEN pos + 1 ELSE pos
            /\ pc' = "args"
            /\ rc' = rc
    /\ UNCHANGED <<toks, eof, cfg, count, wt, argv, ret, heap, nalloc, badfree,
                 errno>>

(* parse_servers after the argument block: the ";" and the final pos++.   *)
parse_servers_semi ==
    /\ pc = "servers_semi"
    /\ Known
    /\ IF tok_expect(";") THEN pos' = pos + 1 /\ pc' = "top" /\ rc' = 1
       ELSE Fail /\ pos' = pos
    /\ UNCHANGED <<toks, eof, cfg, count, wt, argv, ret, heap, nalloc, badfree,
                 errno>>

-----------------------------------------------------------------------------
(* parse_layout and parse_layout_host *)

(* The category keywords parse_layout_host recognises, with the enum      *)
(* value each branch stores in b->cat.                                    *)
CatOf ==
    [w \in CatWords \cup {"host"} |->
        CASE w = "cpu" -> "DRAWCAT_CPU"
          [] w = "mem" -> "DRAWCAT_MEM"
          [] w = "net" -> "DRAWCAT_NET"
          [] w = "disc" -> "DRAWCAT_DISC"
          [] w = "link" -> "DRAWCAT_LINK"
          [] w = "host" -> "DRAWCAT_HOST"
          [] w = "nprocs" -> "DRAWCAT_PROCS"
          [] w = "rprocs" -> "DRAWCAT_RPROCS"
          [] w = "nfiles" -> "DRAWCAT_FILES"]

Periods == {"qmin", "min", "hour", "day", "week", "year"}

(* OptsOf with the branches of net and disc copied from cpu, qmin_bars    *)
(* included.                                                              *)
OptsOfCopied(cat) ==
    CASE cat \in {"DRAWCAT_CPU", "DRAWCAT_MEM", "DRAWCAT_PROCS", "DRAWCAT_RPROCS",
                  "DRAWCAT_FILES", "DRAWCAT_NET", "DRAWCAT_DISC"} ->
                      Periods \cup {"qmin_bars"}
      [] cat = "DRAWCAT_LINK" -> {"ip", "state", "access"}
      [] OTHER -> {}

(* The option keywords the inner loop of each category's branch tests.    *)
OptsOf(cat) ==
    CASE cat \in {"DRAWCAT_CPU", "DRAWCAT_MEM", "DRAWCAT_PROCS",
                  "DRAWCAT_RPROCS", "DRAWCAT_FILES"} -> Periods \cup {"qmin_bars"}
      [] cat \in {"DRAWCAT_NET", "DRAWCAT_DISC"} -> Periods
      [] cat = "DRAWCAT_LINK" -> {"ip", "state", "access"}
      [] OTHER -> {}

(* The flag a branch ors into b->args for an option keyword: one flag per *)
(* category and keyword (CPU_HOUR, NET_HOUR, LINK_IP, ...).               *)
FlagOf(cat, w) == <<cat, w>>

(* The flags a branch stores when it sets the category: HOST_ACCESS for   *)
(* host, none for the others.                                             *)
InitArgs(cat) == IF cat = "DRAWCAT_HOST" THEN {FlagOf(cat, "access")} ELSE {}

(* reallocarray(box, boxsz + 1), boxsz++ and memset of the new box; a is  *)
(* the block of a first allocation.                                       *)
AppendBox(c, a) ==
    [c EXCEPT !.boxp = IF c.boxp = NULL THEN a ELSE c.boxp,
              !.box = Append(c.box, ZeroBox),
              !.boxsz = c.boxsz + 1]

(* b->cat = ..., with b the last box. *)
SetCat(c, cat) ==
    [c EXCEPT !.box[c.boxsz] = [cat |-> cat, args |-> InitArgs(cat)]]

(* OrArg with `=' in place of `|='. *)
OrArgAssign(c, w) ==
    [c EXCEPT !.box[c.boxsz].args = {FlagOf(c.box[c.boxsz].cat, w)}]

(* b->args |= flag, with b the last box. *)
OrArg(c, w) ==
    [c EXCEPT !.box[c.boxsz].args = @ \cup {FlagOf(c.box[c.boxsz].cat, w)}]

(* parse_layout: the "{". *)
parse_layout ==
    /\ pc = "layout"
    /\ Known
    /\ IF tok_expect("{") THEN pos' = pos + 1 /\ pc' = "layout_open" /\ rc' = rc
       ELSE Fail /\ pos' = pos
    /\ UNCHANGED <<toks, eof, cfg, count, wt, argv, ret, heap, nalloc, badfree,
                 errno>>

(* parse_layout: the empty body, the duplicate check and the calloc of    *)
(* the struct draw.                                                       *)
parse_layout_open ==
    /\ pc = "layout_open"
    /\ Known
    /\ IF ~InBounds THEN Abort /\ UNCHANGED <<pos, cfg, rc, heap, nalloc, errno>>
       ELSE IF tok_eq("}") THEN
            /\ pos' = pos + 1 /\ pc' = "top" /\ rc' = 1
            /\ UNCHANGED <<cfg, heap, nalloc, errno>>
       ELSE IF cfg.draw # NULL THEN
            Fail /\ UNCHANGED <<pos, cfg, heap, nalloc, errno>>
       ELSE \E ok \in BOOLEAN :
            IF ~ok THEN
                Fail /\ errno' = "ENOMEM" /\ UNCHANGED <<pos, cfg, heap, nalloc>>
            ELSE /\ cfg' = [cfg EXCEPT !.draw = nalloc + 1]
                 /\ nalloc' = nalloc + 1
                 /\ heap' = heap \cup {nalloc + 1}
                 /\ pc' = "layout_loop"
                 /\ UNCHANGED <<pos, rc, errno>>
    /\ UNCHANGED <<toks, eof, count, wt, argv, ret, badfree>>

(* One turn of the loop of parse_layout up to the end of its if-chain, or *)
(* the loop condition failing.                                            *)
parse_layout_loop ==
    /\ pc = "layout_loop"
    /\ Known
    /\ IF ~InBounds THEN pc' = "layout_close" /\ UNCHANGED <<pos, cfg, rc>>
       ELSE IF tok_eq("header") THEN
            /\ pos' = pos + 1 /\ pc' = "layout_sep" /\ rc' = rc
            /\ cfg' = [cfg EXCEPT !.header = 1]
       ELSE IF tok_eq("errlog") THEN
            pos' = pos + 1 /\ pc' = "layout_errlog" /\ UNCHANGED <<cfg, rc>>
       ELSE IF tok_eq("host") THEN
            pos' = pos + 1 /\ pc' = "lhost" /\ UNCHANGED <<cfg, rc>>
       ELSE Fail /\ UNCHANGED <<pos, cfg>>
    /\ UNCHANGED <<toks, eof, count, wt, argv, ret, heap, nalloc, badfree, errno>>

(* parse_layout: the number after "errlog" and the pos++ after it. *)
parse_layout_errlog ==
    /\ pc = "layout_errlog"
    /\ Known
    /\ \E n \in (IF InBounds THEN {strtonum(Cur, 0, INT_MAX)} ELSE StrayNum(0)) :
        \/ /\ cfg' = [cfg EXCEPT !.errlog = n.val]
           /\ IF n.er THEN Fail /\ pos' = pos
              ELSE pos' = pos + 1 /\ pc' = "layout_sep" /\ rc' = rc
        \/ /\ ~InBounds
           /\ pc' = "segv"
           /\ UNCHANGED <<cfg, pos, rc>>
    /\ UNCHANGED <<toks, eof, count, wt, argv, ret, heap, nalloc, badfree, errno>>

(* parse_layout: after an item, the test for "}" and the ";". *)
parse_layout_sep ==
    /\ pc = "layout_sep"
    /\ Known
    /\ IF ~InBounds THEN Abort /\ UNCHANGED <<pos, rc>>
       ELSE IF tok_eq("}") THEN pc' = "layout_close" /\ UNCHANGED <<pos, rc>>
       ELSE IF tok_eq(";") THEN pos' = pos + 1 /\ pc' = "layout_sep2" /\ rc' = rc
       ELSE Fail /\ pos' = pos
    /\ UNCHANGED <<toks, eof, cfg, count, wt, argv, ret, heap, nalloc, badfree,
                 errno>>

(* parse_layout: the test for "}" after the ";". *)
parse_layout_sep2 ==
    /\ pc = "layout_sep2"
    /\ Known
    /\ IF ~InBounds THEN Abort
       ELSE IF tok_eq("}") THEN pc' = "layout_close"
       ELSE pc' = "layout_loop"
    /\ UNCHANGED <<toks, eof, pos, cfg, count, wt, rc, argv, ret, heap, nalloc,
                 badfree, errno>>

(* parse_layout: the closing "}". *)
parse_layout_close ==
    /\ pc = "layout_close"
    /\ Known
    /\ IF tok_expect("}") THEN pos' = pos + 1 /\ pc' = "layout_semi" /\ rc' = rc
       ELSE Fail /\ pos' = pos
    /\ UNCHANGED <<toks, eof, cfg, count, wt, argv, ret, heap, nalloc, badfree,
                 errno>>

(* parse_layout: the final ";". *)
parse_layout_semi ==
    /\ pc = "layout_semi"
    /\ Known
    /\ IF tok_expect(";") THEN pos' = pos + 1 /\ pc' = "top" /\ rc' = 1
       ELSE Fail /\ pos' = pos
    /\ UNCHANGED <<toks, eof, cfg, count, wt, argv, ret, heap, nalloc, badfree,
                 errno>>

(* parse_layout_host: the "{". *)
parse_layout_host ==
    /\ pc = "lhost"
    /\ Known
    /\ IF tok_expect("{") THEN pos' = pos + 1 /\ pc' = "lhost_open" /\ rc' = rc
       ELSE Fail /\ pos' = pos
    /\ UNCHANGED <<toks, eof, cfg, count, wt, argv, ret, heap, nalloc, badfree,
                 errno>>

(* parse_layout_host: the empty block, which returns without consuming    *)
(* the "}".                                                               *)
parse_layout_host_open ==
    /\ pc = "lhost_open"
    /\ Known
    /\ IF ~InBounds THEN Abort
       ELSE IF tok_eq("}") THEN pc' = "layout_sep"
       ELSE pc' = "lhost_loop"
    /\ UNCHANGED <<toks, eof, pos, cfg, count, wt, rc, argv, ret, heap, nalloc,
                 badfree, errno>>

(* One turn of the box loop of parse_layout_host up to the category: the  *)
(* new box, then the category keyword.                                    *)
parse_layout_host_loop ==
    /\ pc = "lhost_loop"
    /\ Known
    /\ IF ~InBounds THEN
            pc' = "lhost_close" /\ UNCHANGED <<pos, cfg, rc, heap, nalloc, errno>>
       ELSE \E ok \in BOOLEAN :
            IF ~ok THEN
                Fail /\ errno' = "ENOMEM" /\ UNCHANGED <<pos, cfg, heap, nalloc>>
            ELSE LET c1 == AppendBox(cfg, nalloc + 1) IN
                 /\ errno' = errno
                 /\ nalloc' = IF cfg.boxp = NULL THEN nalloc + 1 ELSE nalloc
                 /\ heap' = IF cfg.boxp = NULL THEN heap \cup {nalloc + 1} ELSE heap
                 /\ IF Cur \in DOMAIN CatOf THEN
                        /\ cfg' = SetCat(c1, CatOf[Cur])
                        /\ pos' = pos + 1 /\ pc' = "lhost_opts" /\ rc' = rc
                    ELSE cfg' = c1 /\ Fail /\ pos' = pos
    /\ UNCHANGED <<toks, eof, count, wt, argv, ret, badfree>>

(* parse_layout_host_opts with tok_eq in place of tok_eq_adv for the      *)
(* option keywords: the flag is set and the cursor stays.                 *)
parse_layout_host_opts_stay ==
    /\ pc = "lhost_opts"
    /\ Known
    /\ IF ~InBounds THEN pc' = "lhost_sep" /\ UNCHANGED <<pos, cfg, rc>>
       ELSE IF Cur \in OptsOf(cfg.box[cfg.boxsz].cat) THEN
            /\ cfg' = OrArg(cfg, Cur)
            /\ pos' = pos /\ pc' = pc /\ rc' = rc
       ELSE IF tok_eq(";") \/ tok_eq("}") THEN
            pc' = "lhost_sep" /\ UNCHANGED <<pos, cfg, rc>>
       ELSE Fail /\ UNCHANGED <<pos, cfg>>
    /\ UNCHANGED <<toks, eof, count, wt, argv, ret, heap, nalloc, badfree, errno>>

(* One turn of the option loop of a category's branch. *)
parse_layout_host_opts ==
    /\ pc = "lhost_opts"
    /\ Known
    /\ IF ~InBounds THEN pc' = "lhost_sep" /\ UNCHANGED <<pos, cfg, rc>>
       ELSE IF Cur \in OptsOf(cfg.box[cfg.boxsz].cat) THEN
            /\ cfg' = OrArg(cfg, Cur)
            /\ pos' = pos + 1 /\ pc' = pc /\ rc' = rc
       ELSE IF tok_eq(";") \/ tok_eq("}") THEN
            pc' = "lhost_sep" /\ UNCHANGED <<pos, cfg, rc>>
       ELSE Fail /\ UNCHANGED <<pos, cfg>>
    /\ UNCHANGED <<toks, eof, count, wt, argv, ret, heap, nalloc, badfree, errno>>

(* parse_layout_host: after a box, the test for "}" and the ";". *)
parse_layout_host_sep ==
    /\ pc = "lhost_sep"
    /\ Known
    /\ IF ~InBounds THEN Abort /\ UNCHANGED <<pos, rc>>
       ELSE IF tok_eq("}") THEN pc' = "lhost_close" /\ UNCHANGED <<pos, rc>>
       ELSE IF tok_eq(";") THEN pos' = pos + 1 /\ pc' = "lhost_sep2" /\ rc' = rc
       ELSE Fail /\ pos' = pos
    /\ UNCHANGED <<toks, eof, cfg, count, wt, argv, ret, heap, nalloc, badfree,
                 errno>>

(* parse_layout_host: the test for "}" after the ";". *)
parse_layout_host_sep2 ==
    /\ pc = "lhost_sep2"
    /\ Known
    /\ IF ~InBounds THEN Abort
       ELSE IF tok_eq("}") THEN pc' = "lhost_close"
       ELSE pc' = "lhost_loop"
    /\ UNCHANGED <<toks, eof, pos, cfg, count, wt, rc, argv, ret, heap, nalloc,
                 badfree, errno>>

(* parse_layout_host: the closing "}". *)
parse_layout_host_close ==
    /\ pc = "lhost_close"
    /\ Known
    /\ IF tok_expect("}") THEN pos' = pos + 1 /\ pc' = "layout_sep" /\ rc' = rc
       ELSE Fail /\ pos' = pos
    /\ UNCHANGED <<toks, eof, cfg, count, wt, argv, ret, heap, nalloc, badfree,
                 errno>>

-----------------------------------------------------------------------------
(* The end of config_parse, config_cmdline and config_free *)

(* config_parse after the loop: the loop's buffers are freed, the parse   *)
(* is judged by pos # toksz, and with arguments the servers of the file   *)
(* are released before config_cmdline is called.                          *)
config_parse_end ==
    /\ pc = "parse_end"
    /\ Known
    /\ IF pos # toksz THEN
            pc' = "done" /\ ret' = 0 /\ UNCHANGED <<cfg, argv, heap, badfree>>
       ELSE \E a \in Args :
            /\ argv' = a
            /\ IF Len(a) = 0 THEN
                    pc' = "done" /\ ret' = 1 /\ UNCHANGED <<cfg, heap, badfree>>
               ELSE LET f == DoFree(UrlPtrs(cfg) \o <<cfg.urlsp>>, heap, badfree) IN
                    /\ heap' = f.heap
                    /\ badfree' = f.bad
                    /\ cfg' = [cfg EXCEPT !.urls = <<>>, !.urlsp = NULL, !.urlsz = 0]
                    /\ pc' = "cmdline"
                    /\ ret' = ret
    /\ UNCHANGED <<toks, eof, pos, count, wt, rc, nalloc, errno>>

(* CmdlineUrls with the loop copying argv[0] into every entry.            *)
CmdlineUrlsFirst(av, k, base) ==
    [i \in 1..Len(av) |->
        IF i <= k THEN [url |-> base + i, str |-> av[1], waittime |-> 0]
        ELSE ZeroUrl]

(* CmdlineUrls with the loop filling the array from its last entry down.  *)
CmdlineUrlsReversed(av, k, base) ==
    [i \in 1..Len(av) |->
        IF i <= k THEN [url |-> base + i, str |-> av[Len(av) + 1 - i], waittime |-> 0]
        ELSE ZeroUrl]

(* The array config_cmdline builds when calloc succeeded and the first k  *)
(* strdup calls did: entry i points to block base + i and holds argv[i].  *)
CmdlineUrls(av, k, base) ==
    [i \in 1..Len(av) |->
        IF i <= k THEN [url |-> base + i, str |-> av[i], waittime |-> 0]
        ELSE ZeroUrl]

(* config_cmdline, on the missing-file path and on the override path.     *)
config_cmdline ==
    /\ pc = "cmdline"
    /\ IF Len(argv) = 0 THEN Abort /\ UNCHANGED <<cfg, ret, heap, nalloc, errno>>
       ELSE \E okarr \in BOOLEAN :
            IF ~okarr THEN
                /\ cfg' = [cfg EXCEPT !.urlsz = Len(argv), !.urlsp = NULL, !.urls = <<>>]
                /\ pc' = "done" /\ ret' = 0
                /\ errno' = "ENOMEM"
                /\ UNCHANGED <<heap, nalloc>>
            ELSE \E k \in 0..Len(argv) :
                /\ cfg' = [cfg EXCEPT !.urlsz = Len(argv),
                                      !.urlsp = nalloc + 1,
                                      !.urls = CmdlineUrls(argv, k, nalloc + 1)]
                /\ heap' = heap \cup (nalloc + 1 .. nalloc + 1 + k)
                /\ nalloc' = nalloc + 1 + k
                /\ pc' = "done"
                /\ ret' = IF k = Len(argv) THEN 1 ELSE 0
                /\ errno' = IF k = Len(argv) THEN errno ELSE "ENOMEM"
    /\ UNCHANGED <<toks, eof, pos, count, wt, rc, argv, badfree>>

(* The pointers config_free hands to free(), in order. *)
FreeList(c) ==
    UrlPtrs(c) \o (IF c.draw # NULL THEN <<c.boxp>> ELSE <<>>) \o <<c.draw, c.urlsp>>

(* config_free, called once after config_parse returned.  Its loop reads  *)
(* urls[i] for i < urlsz: with urls NULL that is a null dereference.      *)
config_free ==
    /\ pc = "done"
    /\ IF cfg.urlsz > 0 /\ cfg.urlsp = NULL THEN
            pc' = "free_segv" /\ UNCHANGED <<heap, badfree>>
       ELSE LET f == DoFree(FreeList(cfg), heap, badfree) IN
            /\ heap' = f.heap
            /\ badfree' = f.bad
            /\ pc' = "freed"
    /\ UNCHANGED <<toks, eof, pos, cfg, count, wt, rc, argv, ret, nalloc, errno>>

Next ==
    \/ config_parse
    \/ Tokenize
    \/ config_parse_loop
    \/ parse_waittime
    \/ parse_waittime_semi
    \/ parse_servers
    \/ parse_server_args
    \/ parse_server_args_num
    \/ parse_server_args_semi
    \/ parse_servers_semi
    \/ parse_layout
    \/ parse_layout_open
    \/ parse_layout_loop
    \/ parse_layout_errlog
    \/ parse_layout_sep
    \/ parse_layout_sep2
    \/ parse_layout_close
    \/ parse_layout_semi
    \/ parse_layout_host
    \/ parse_layout_host_open
    \/ parse_layout_host_loop
    \/ parse_layout_host_opts
    \/ parse_layout_host_sep
    \/ parse_layout_host_sep2
    \/ parse_layout_host_close
    \/ config_parse_end
    \/ config_cmdline
    \/ config_free

Spec == Init /\ [][Next]_vars

(* The program on files made of servers and waittime statements. *)
NextServers ==
    \/ config_parse
    \/ TokenizeServers
    \/ config_parse_loop
    \/ parse_waittime
    \/ parse_waittime_semi
    \/ parse_servers
    \/ parse_server_args
    \/ parse_server_args_num
    \/ parse_server_args_semi
    \/ parse_servers_semi
    \/ config_parse_end
    \/ config_cmdline
    \/ config_free

SpecServers == Init /\ [][NextServers]_vars

(* The program run to its end: config_parse and config_free are plain     *)
(* sequential code, so a step that can be taken is taken.                 *)
SpecLive == Init /\ [][Next]_vars /\ WF_vars(Next)

-----------------------------------------------------------------------------
(* Reading the file as text: helpers for the properties below. *)

Returned == pc \in {"done", "freed", "free_segv"}

(* The run is one of config_parse on the file f, opened and read: the     *)
(* tokens drawn so far are the first tokens of f, and f ends where the    *)
(* file was seen to end.                                                  *)
OnFile(f) ==
    /\ toks # <<>> \/ eof
    /\ Len(toks) <= Len(f)
    /\ toks = SubSeq(f, 1, Len(toks))
    /\ eof => Len(toks) = Len(f)

(* The largest index up to n that holds the word w, or 0. *)
LastIdx(w, n) ==
    LET S == {j \in 1..n : toks[j] = w}
    IN  IF S = {} THEN 0 ELSE CHOOSE j \in S : \A k \in S : k <= j

(* The smallest index in lo..hi that holds the word w, or 0. *)
FirstIdx(w, lo, hi) ==
    LET S == {j \in lo..hi : toks[j] = w}
    IN  IF S = {} THEN 0 ELSE CHOOSE j \in S : \A k \in S : j <= k

-----------------------------------------------------------------------------
(* C1: whenever the dispatcher or a statement parser reported an error,   *)
(* config_parse returns 0 and never reaches the command-line override,    *)
(* wherever in the file the error was detected.                           *)
C1_ErrorMeansFailure ==
    rc = 0 => /\ pc # "cmdline"
              /\ (Returned => ret = 0)

-----------------------------------------------------------------------------
(* C2: while a servers statement is parsed the entries of earlier         *)
(* statements keep their address and waittime, and when its argument      *)
(* block `{ waittime W ... }' closes, exactly the entries of the hosts of *)
(* this statement get waittime W (the last W of the block).               *)

ServersPcs == {"servers", "args", "args_num", "args_semi", "servers_semi"}

(* Number of tokens the cursor has passed. *)
Passed == IF pos > Len(toks) THEN Len(toks) ELSE pos

(* Index of the keyword of the servers statement being parsed. *)
StmtKeyword == LastIdx("servers", Passed)

(* Index of the "{" that opens its argument block, 0 before the block. *)
StmtBrace == FirstIdx("{", StmtKeyword + 1, Passed)

(* Number of host tokens of the statement read so far. *)
StmtHosts ==
    IF StmtBrace = 0 THEN Passed - StmtKeyword ELSE StmtBrace - StmtKeyword - 1

(* The number token of the last waittime of the block that ends at the    *)
(* current token, "" for a block without one.                             *)
BlockWord ==
    IF toks[pos] = "{" THEN ""
    ELSE IF toks[pos] = ";" THEN toks[pos - 1]
    ELSE toks[pos]

C2_Step ==
    pc \in ServersPcs =>
        LET earlier == cfg.urlsz - StmtHosts IN
        /\ earlier >= 0
        /\ \A i \in 1..earlier : i <= Len(cfg'.urls) /\ cfg'.urls[i] = cfg.urls[i]
        /\ (pc = "args" /\ pc' = "servers_semi" /\ BlockWord # "" =>
                /\ Len(cfg'.urls) = Len(cfg.urls)
                /\ cfg'.urlsz = cfg.urlsz
                /\ \A i \in (earlier + 1)..cfg.urlsz :
                      cfg'.urls[i] =
                          [cfg.urls[i] EXCEPT !.waittime = Numeral[BlockWord]])

C2_ScopedWaittime == [][C2_Step]_vars

(* Two servers statements, each with its own block and waittime. *)
C2_Witness ==
    /\ pc = "servers_semi"
    /\ Len(cfg.urls) = 2
    /\ cfg.urls[1].waittime = 20
    /\ cfg.urls[2].waittime = 30

-----------------------------------------------------------------------------
(* C3: when the file parsed (pos = toksz) and arguments are given, the    *)
(* servers of the returned configuration are the arguments in order, each *)
(* with no waittime of its own, and the layout and the global waittime    *)
(* are those the file alone yields: the steps from the end of the parse   *)
(* on (the release of the file's servers, config_cmdline) leave them as   *)
(* they are when config_parse returns for no arguments.                   *)

LayoutOf(c) == <<c.waittime, c.draw, c.header, c.errlog, c.box, c.boxp, c.boxsz>>

C3_Servers ==
    (Returned /\ ret = 1 /\ eof /\ Len(argv) > 0) =>
        /\ cfg.urlsz = Len(argv)
        /\ Len(cfg.urls) = Len(argv)
        /\ \A i \in 1..Len(argv) :
              /\ cfg.urls[i].str = argv[i]
              /\ cfg.urls[i].url # NULL
              /\ cfg.urls[i].waittime = 0

C3_Kept == pc \in {"parse_end", "cmdline"} => LayoutOf(cfg') = LayoutOf(cfg)

C3_Override == [](C3_Servers) /\ [][C3_Kept]_vars

(* A file with two servers, one with a waittime, a global waittime, and   *)
(* two arguments.                                                         *)
C3_Witness ==
    /\ pc = "done" /\ ret = 1 /\ eof /\ rc = 1
    /\ Len(argv) = 2
    /\ cfg.waittime = 30
    /\ \E i \in 1..Len(toks) : toks[i] = "h1"
    /\ \E i \in 1..Len(toks) : toks[i] = "{"

-----------------------------------------------------------------------------
(* C4: a `servers' keyword followed by no host token (by ";", by "{" or   *)
(* by the end of the file) makes config_parse return failure.             *)

(* In the files considered the word "servers" only stands as a keyword.   *)
EmptyServers ==
    \E j \in 1..Len(toks) :
        /\ toks[j] = "servers"
        /\ IF j = Len(toks) THEN eof ELSE toks[j + 1] \in {";", "{"}

C4_EmptyServersFail == (Returned /\ EmptyServers) => ret = 0

-----------------------------------------------------------------------------
(* C5: a file with two layout statements makes config_parse fail,         *)
(* whatever their bodies, empty ones included.  Stated for files whose    *)
(* second statement is closed by its "}".                                 *)

(* In the files considered the word "layout" only stands as a keyword.    *)
LayoutCount == Cardinality({j \in 1..Len(toks) : toks[j] = "layout"})

C5_SecondLayoutFails ==
    (Returned /\ eof /\ LayoutCount >= 2 /\ toks[Len(toks)] \in {"}", ";"}) => ret = 0

-----------------------------------------------------------------------------
(* C6: `layout { host { } } ;' parses and yields a layout that is present *)
(* and has no boxes.                                                      *)

EmptyHostFile == <<"layout", "{", "host", "{", "}", "}", ";">>

C6_EmptyHostBlock ==
    (Returned /\ OnFile(EmptyHostFile) /\ errno = "") =>
        ret = 1 /\ cfg.draw # NULL /\ cfg.boxsz = 0

-----------------------------------------------------------------------------
(* C7: after config_parse returned, by whatever path, one call of         *)
(* config_free dereferences no null pointer and leaves every block freed  *)
(* exactly once.                                                          *)

C7_FreeReleasesAll ==
    /\ pc # "free_segv"
    /\ pc = "freed" => heap = {} /\ ~badfree

-----------------------------------------------------------------------------
(* C8: for a layout that parsed without error, the boxes are the box      *)
(* definitions of its host blocks, one box each, in the order written:    *)
(* the category the definition names, and as options exactly the flags of *)
(* the option keywords it lists.                                          *)

(* The box definitions written in the file: in each `host { ... }' the    *)
(* runs of words between "{", ";" and "}".                                *)
RECURSIVE BoxDefs(_, _, _, _)
BoxDefs(i, inBlock, cur, acc) ==
    LET more == IF cur = <<>> THEN acc ELSE Append(acc, cur) IN
    IF i > Len(toks) THEN more
    ELSE IF ~inBlock THEN
        IF toks[i] = "host" /\ i < Len(toks) /\ toks[i + 1] = "{"
        THEN BoxDefs(i + 2, TRUE, <<>>, acc)
        ELSE BoxDefs(i + 1, FALSE, <<>>, acc)
    ELSE IF toks[i] = "}" THEN BoxDefs(i + 1, FALSE, <<>>, more)
    ELSE IF toks[i] = ";" THEN BoxDefs(i + 1, TRUE, <<>>, more)
    ELSE BoxDefs(i + 1, TRUE, Append(cur, toks[i]), acc)

(* The box a definition stands for. *)
BoxOfDef(d) ==
    LET cat == CatOf[d[1]] IN
    [cat |-> cat,
     args |-> {<<cat, d[j]>> : j \in 2..Len(d)}
              \cup (IF cat = "DRAWCAT_HOST" THEN {<<cat, "access">>} ELSE {})]

C8_BoxesAsDeclared ==
    (Returned /\ ret = 1 /\ rc = 1 /\ eof) =>
        LET defs == BoxDefs(1, FALSE, <<>>, <<>>) IN
        /\ cfg.boxsz = Len(defs)
        /\ Len(cfg.box) = Len(defs)
        /\ \A i \in 1..Len(defs) :
              defs[i][1] \in DOMAIN CatOf /\ cfg.box[i] = BoxOfDef(defs[i])

(* Two boxes of different categories, the first with two options. *)
C8_Witness ==
    /\ pc = "done" /\ ret = 1 /\ rc = 1 /\ eof
    /\ cfg.boxsz = 2
    /\ Cardinality(cfg.box[1].args) = 2
    /\ cfg.box[1].cat # cfg.box[2].cat

-----------------------------------------------------------------------------
(* C9: in every state every box carries only options legal for its        *)
(* category, and a host box exactly its fixed access flag.                *)

AllPeriods == {"qmin", "min", "hour", "day", "week", "year"}

LegalFor(cat) ==
    CASE cat \in {"DRAWCAT_CPU", "DRAWCAT_MEM", "DRAWCAT_PROCS",
                  "DRAWCAT_RPROCS", "DRAWCAT_FILES"} ->
                      {<<cat, w>> : w \in AllPeriods \cup {"qmin_bars"}}
      [] cat \in {"DRAWCAT_NET", "DRAWCAT_DISC"} -> {<<cat, w>> : w \in AllPeriods}
      [] cat = "DRAWCAT_LINK" -> {<<cat, w>> : w \in {"ip", "state", "access"}}
      [] cat = "DRAWCAT_HOST" -> {<<cat, "access">>}
      [] OTHER -> {}

C9_OptionsLegal ==
    /\ Len(cfg.box) = cfg.boxsz
    /\ \A i \in 1..Len(cfg.box) :
          /\ cfg.box[i].args \subseteq LegalFor(cfg.box[i].cat)
          /\ cfg.box[i].cat = "DRAWCAT_HOST" => cfg.box[i].args = {<<"DRAWCAT_HOST", "access">>}

(* qmin_bars after an option of a net or disc box has been rejected. *)
C9_Witness ==
    /\ pc = "parse_end" /\ rc = 0 /\ InBounds
    /\ Cur = "qmin_bars"
    /\ cfg.boxsz > 0
    /\ cfg.box[cfg.boxsz].cat \in {"DRAWCAT_NET", "DRAWCAT_DISC"}
    /\ cfg.box[cfg.boxsz].args # {}

-----------------------------------------------------------------------------
(* C10: after a successful parse the global waittime is the number of the *)
(* last top-level `waittime N ;' statement of the file, 60 without one;   *)
(* and a top-level waittime whose number is below 15, above INT_MAX or    *)
(* not a number makes config_parse fail.                                  *)

(* The statements of the file end at the ";" outside braces.  With start  *)
(* the first token of the statement that holds token i: the number word   *)
(* of the last statement of the form `waittime N ;' ("" for none, acc),   *)
(* and whether some statement begins with `waittime' and a word that is   *)
(* no number of the range (bad).                                          *)
RECURSIVE WaitScan(_, _, _, _, _)
WaitScan(i, depth, start, acc, bad) ==
    IF i > Len(toks) THEN [last |-> acc, bad |-> bad]
    ELSE LET isBad == /\ i = start + 1
                      /\ toks[start] = "waittime"
                      /\ ~(toks[i] \in DOMAIN Numeral /\ Numeral[toks[i]] >= 15)
         IN
         IF toks[i] = "{" THEN WaitScan(i + 1, depth + 1, start, acc, bad \/ isBad)
         ELSE IF toks[i] = "}" THEN WaitScan(i + 1, depth - 1, start, acc, bad \/ isBad)
         ELSE IF toks[i] = ";" /\ depth = 0 THEN
              WaitScan(i + 1, 0, i + 1,
                       IF i = start + 2 /\ toks[start] = "waittime"
                       THEN toks[start + 1] ELSE acc,
                       bad \/ isBad)
         ELSE WaitScan(i + 1, depth, start, acc, bad \/ isBad)

C10_GlobalWaittime ==
    LET w == WaitScan(1, 0, 1, "", FALSE) IN
    /\ (Returned /\ ret = 1 /\ eof) =>
            IF w.last = "" THEN cfg.waittime = 60
            ELSE w.last \in DOMAIN Numeral /\ cfg.waittime = Numeral[w.last]
    /\ (Returned /\ w.bad) => ret = 0

-----------------------------------------------------------------------------
(* C11: when the file does not exist and there are n >= 1 arguments, and  *)
(* no allocation of config_cmdline fails, config_parse returns 1 with     *)
(* exactly n servers, the arguments in order, each with waittime 0, with  *)
(* no layout and with the global waittime 60.                             *)

(* open(2) failed with ENOENT and nothing failed since. *)
MissingFile == errno = "ENOENT" /\ toks = <<>> /\ ~eof

C11_MissingFileUsesArgs ==
    (Returned /\ MissingFile /\ Len(argv) >= 1) =>
        /\ ret = 1
        /\ cfg.urlsz = Len(argv)
        /\ Len(cfg.urls) = Len(argv)
        /\ \A i \in 1..Len(argv) :
              /\ cfg.urls[i].str = argv[i]
              /\ cfg.urls[i].url # NULL
              /\ cfg.urls[i].waittime = 0
        /\ cfg.draw = NULL
        /\ cfg.boxsz = 0
        /\ cfg.waittime = 60

(* The missing file with two arguments. *)
C11_Witness ==
    /\ pc = "done" /\ MissingFile
    /\ Len(argv) = 2
    /\ ret = 1

-----------------------------------------------------------------------------
(* C12: the ";" after the waittime value of a server argument block is    *)
(* optional.  A file that is one statement `servers H { waittime W } ;'   *)
(* or `servers H { waittime W ; } ;', with H a host list and W a number   *)
(* of the range, parses without error when no allocation fails; in both   *)
(* forms the cursor ends right after the statement's ";" and the servers  *)
(* are the hosts of H in order, each with waittime W, with nothing else   *)
(* of the configuration changed: the result does not depend on the form.  *)

(* The host lists and numbers the files are made of. *)
HostLists ==
    {<<h>> : h \in HostWords} \cup {<<h, g>> : h \in HostWords, g \in HostWords}

GoodNums == {w \in DOMAIN Numeral : Numeral[w] >= WAITTIME_MIN /\ w \in NumWords}

(* The statement in its two forms. *)
BlockShort(h, w) == <<"servers">> \o h \o <<"{", "waittime", w, "}", ";">>

BlockLong(h, w) == <<"servers">> \o h \o <<"{", "waittime", w, ";", "}", ";">>

(* The configuration both forms stand for. *)
BlockStmtCfg(h, w) ==
    /\ cfg.urlsz = Len(h)
    /\ Len(cfg.urls) = Len(h)
    /\ \A i \in 1..Len(h) :
          /\ cfg.urls[i].str = h[i]
          /\ cfg.urls[i].url # NULL
          /\ cfg.urls[i].waittime = Numeral[w]
    /\ LayoutOf(cfg) = LayoutOf([ZeroCfg EXCEPT !.waittime = WAITTIME_DEFAULT])

C12_OptionalSemicolon ==
    \A h \in HostLists, w \in GoodNums :
        \A f \in {BlockShort(h, w), BlockLong(h, w)} :
            (OnFile(f) /\ errno = "") =>
                /\ pc = "parse_end" => rc = 1 /\ pos = Len(f) /\ BlockStmtCfg(h, w)
                /\ (Returned /\ Len(argv) = 0) =>
                        ret = 1 /\ pos = Len(f) /\ BlockStmtCfg(h, w)

(* The form with the ";", two hosts, parsed to its end. *)
C12_Witness ==
    /\ OnFile(BlockLong(<<"h1", "h2">>, "30")) /\ eof /\ errno = ""
    /\ pc = "done" /\ Len(argv) = 0 /\ ret = 1

(* The form without the ";", parsed to its end. *)
C12_WitnessShort ==
    /\ OnFile(BlockShort(<<"h1", "h2">>, "30")) /\ eof /\ errno = ""
    /\ pc = "done" /\ Len(argv) = 0 /\ ret = 1

-----------------------------------------------------------------------------
(* C13: tok_eq, tok_eq_adv and parse_waittime are only entered with       *)
(* pos < toksz, whatever the file and wherever it ends, so that their     *)
(* assertions hold and no run is aborted inside the parser.               *)

(* The places where one of the three is entered without a test of         *)
(* pos < toksz before it.                                                 *)
UncheckedEqPcs ==
    {"waittime", "layout_open", "layout_sep", "layout_sep2",
     "lhost_open", "lhost_sep", "lhost_sep2"}

C13_EnteredInBounds ==
    /\ (pc \in UncheckedEqPcs /\ Known) => InBounds
    /\ ~(pc = "abort" /\ toks # <<>>)

-----------------------------------------------------------------------------
(* C14: the cursor never passes the end of the token array, and the       *)
(* number after `waittime' in a server argument block and after `errlog'  *)
(* in a layout is read with pos < toksz.                                  *)

NumReadPcs == {"args_num", "layout_errlog"}

C14_CursorInBounds ==
    /\ eof => pos <= toksz
    /\ (pc \in NumReadPcs /\ Known) => InBounds
    /\ pc # "segv"

-----------------------------------------------------------------------------
(* C15: when a host block is rejected for an unknown option or an unknown *)
(* category keyword, config_parse returns 0 and the boxes left in the     *)
(* configuration are those of the box definitions read before the         *)
(* rejected token, in order, each with a recognised category: there is no *)
(* box for a token rejected as a category.                                *)

(* BoxDefs over the first n tokens only. *)
RECURSIVE PassedDefs(_, _, _, _, _)
PassedDefs(n, i, inBlock, cur, acc) ==
    LET more == IF cur = <<>> THEN acc ELSE Append(acc, cur) IN
    IF i > n THEN more
    ELSE IF ~inBlock THEN
        IF toks[i] = "host" /\ i < n /\ toks[i + 1] = "{"
        THEN PassedDefs(n, i + 2, TRUE, <<>>, acc)
        ELSE PassedDefs(n, i + 1, FALSE, <<>>, acc)
    ELSE IF toks[i] = "}" THEN PassedDefs(n, i + 1, FALSE, <<>>, more)
    ELSE IF toks[i] = ";" THEN PassedDefs(n, i + 1, TRUE, <<>>, more)
    ELSE PassedDefs(n, i + 1, TRUE, Append(cur, toks[i]), acc)

(* The cursor stands inside a host block: the last "{" passed follows     *)
(* `host' and no "}" was passed since.                                    *)
InHostBlock ==
    LET b == LastIdx("{", Passed) IN
    /\ b >= 2
    /\ toks[b - 1] = "host"
    /\ LastIdx("}", Passed) < b

(* The token under the cursor was rejected inside a host block; the block *)
(* rejects nothing but unknown categories and unknown options.            *)
RejectedInHost ==
    /\ Returned /\ rc = 0 /\ errno = ""
    /\ InBounds /\ InHostBlock

C15_OnlyRecognisedBoxes ==
    RejectedInHost =>
        LET defs == PassedDefs(pos, 1, FALSE, <<>>, <<>>) IN
        /\ ret = 0
        /\ cfg.boxsz = Len(defs)
        /\ Len(cfg.box) = Len(defs)
        /\ \A i \in 1..Len(defs) :
              defs[i][1] \in DOMAIN CatOf /\ cfg.box[i].cat = CatOf[defs[i][1]]

-----------------------------------------------------------------------------
(* C16: whenever parse_layout returns success the cursor stands right     *)
(* after the ";" that ends the layout statement, the empty body           *)
(* `layout { } ;' included.                                               *)

LayoutPcs ==
    {"layout", "layout_open", "layout_loop", "layout_errlog", "layout_sep",
     "layout_sep2", "layout_close", "layout_semi"}

C16_Step == (pc \in LayoutPcs /\ pc' = "top") => pos' >= 1 /\ toks[pos'] = ";"

C16_LayoutEndsAfterSemicolon == [][C16_Step]_vars

-----------------------------------------------------------------------------
(* C17: the parse terminates.  The cursor never moves back; every step of *)
(* the parser either moves it forward or, with the cursor where it is,    *)
(* moves on in the code towards the exit of the loop it is in (Rank       *)
(* falls), so no loop turns without consuming a token; and every run      *)
(* comes to its end.  A run ends when config_parse has returned and the   *)
(* configuration was released, or when an assertion or a stray read ended *)
(* the process.                                                           *)

(* Places of the code in the order in which they can follow one another   *)
(* while the cursor stands still.                                         *)
Rank ==
    [p \in ParsePcs |->
        CASE p = "parse_end" -> 0
          [] p = "layout_open" -> 12
          [] p \in {"lhost_open", "lhost_sep2"} -> 11
          [] p = "lhost_loop" -> 10
          [] p = "lhost_opts" -> 9
          [] p = "lhost_sep" -> 8
          [] p = "lhost_close" -> 7
          [] p = "layout_sep" -> 6
          [] p = "layout_sep2" -> 5
          [] p = "layout_loop" -> 4
          [] p = "layout_close" -> 3
          [] p = "args_semi" -> 2
          [] OTHER -> 1]

(* A step of the parser itself, not the reading of the file. *)
ParserStep == pc \in ParsePcs \ {"parse_end"} /\ toks' = toks /\ eof' = eof

C17_Step ==
    /\ pos' >= pos
    /\ ParserStep =>
          \/ pos' > pos
          \/ pc' \in {"abort", "segv"}
          \/ pc' \in ParsePcs /\ Rank[pc'] < Rank[pc]

Ended == pc \in {"freed", "free_segv", "abort", "segv"}

C17_Terminates == [][C17_Step]_vars /\ <>Ended

(* A parse in which the loops of parse_layout and parse_layout_host have  *)
(* both turned twice, come to its end.                                    *)
C17_Witness ==
    /\ pc = "freed" /\ eof /\ rc = 1 /\ ret = 1
    /\ cfg.boxsz = 2
    /\ cfg.header = 1

-----------------------------------------------------------------------------
(* C18: config_cmdline is never entered with an empty argument list,      *)
(* neither when the file is missing nor after a parse.                    *)

C18_CmdlineHasArgs == pc = "cmdline" => Len(argv) # 0

====
